---- MODULE Spec2Model ----
(***************************************************************************)
(* Model of apps/ios/generate_musickit_token.py: a one-shot script that    *)
(* reads a .p8 private key, builds an ES256 JWT header and payload, signs  *)
(* them with jwt.encode and prints the token.                              *)
(*                                                                         *)
(* The script is a straight line of module-level statements; pc holds the  *)
(* source line the interpreter is about to execute.  The host environment  *)
(* (installed libraries, key file, local time-zone rule, real clock,       *)
(* console) is the only source of nondeterminism.                          *)
(*                                                                         *)
(* A naive datetime is a record [s, us]: whole seconds since 1970-01-01     *)
(* 00:00:00 on the naive calendar, and microseconds.  Unix instants are    *)
(* integer seconds since the epoch.                                        *)
(***************************************************************************)
EXTENDS Integers, Sequences, FiniteSets, TLC

\* ---------------------------------------------------------------- bounds
MaxOffsetHours == 1     \* host standard UTC offsets range over -Max..Max hours
MaxDstShiftHours == 1   \* offset change at the zone's transition, 0..Max hours
MaxClockSample == 2     \* real-clock samples 0..Max

\* ------------------------------------------------------------- constants
TEAM_ID == "Y23RJZMV5M"
KEY_ID == "R4WYDP8D72"
PRIVATE_KEY_PATH == "~/.apple-keys/AuthKey_R4WYDP8D72.p8"
ValidDays == 180
max_fold_seconds == 24 * 3600
MICRO == 1000 * 1000
DAY == 24 * 3600

\* --------------------------------------------------- host environment sets
\* The instant (Unix seconds) at which the host zone changes its UTC offset:
\* 2024-03-10 07:00:00 UTC.
TransitionAt == 19792 * DAY + 7 * 3600

\* A zone rule: offset std before the transition instant, dst from it on.
TZRules ==
    { [std |-> 3600 * h, dst |-> 3600 * (h + s), at |-> TransitionAt] :
        h \in (0 - MaxOffsetHours)..MaxOffsetHours, s \in 0..MaxDstShiftHours }

\* Real-clock instants (Unix seconds) at which utcnow() may be called.
\* Sample 0: now + 180 days lands half an hour after the transition;
\* sample 1: the transition lies inside the 180 days;
\* sample 2: now itself is half an hour after the transition.
ClockBase == TransitionAt - ValidDays * DAY + 1800
ClockStep == 90 * DAY
ClockSeconds == { ClockBase + k * ClockStep : k \in 0..MaxClockSample }
ClockMicros == {0, MICRO - 1}

\* What is found at PRIVATE_KEY_PATH.
KeyFiles == {"missing", "denied", "directory", "undecodable", "invalid", "valid"}

VARIABLES
    pc,           \* source line about to run; 0 once the process has ended
    pyjwt,        \* host: PyJWT is importable
    cryptography, \* host: the cryptography package is importable
    keyFile,      \* host: what is at PRIVATE_KEY_PATH
    tz,           \* host: local time-zone rule
    trueNow,      \* real clock (Unix time [s, us]) when utcnow() ran; <<>> before
    private_key,  \* module variable, <<>> while unbound
    headers,      \* module variable, <<>> while unbound
    now,          \* module variable (naive datetime), <<>> while unbound
    expiration,   \* module variable (naive datetime), <<>> while unbound
    payload,      \* module variable, <<>> while unbound
    token,        \* module variable, <<>> while unbound
    e,            \* exception bound by "except Exception as e", <<>> otherwise
    stdout,       \* source lines of the print calls that wrote, in order
    argsOut,      \* the interpolated value written by each such print
    encodeCalls,  \* arguments of every jwt.encode call, in order
    exitStatus,   \* process exit status, -1 while running
    uncaught      \* exception that ended the process with a traceback, or ""

vars == << pc, pyjwt, cryptography, keyFile, tz, trueNow, private_key, headers,
           now, expiration, payload, token, e, stdout, argsOut, encodeCalls,
           exitStatus, uncaught >>

host == << pyjwt, cryptography, keyFile, tz >>
bindings == << private_key, headers, now, expiration, payload, token >>

\* ------------------------------------------------------- time arithmetic
Max(a, b) == IF a >= b THEN a ELSE b

\* time.localtime on the host: UTC offset in force at Unix instant u.
utcoffset(z, u) == IF u < z.at THEN z.std ELSE z.dst

\* local(u) of datetime's local_to_seconds: naive local seconds shown at u.
local(z, u) == u + utcoffset(z, u)

\* datetime's local_to_seconds / _mktime with fold = 0: the Unix instant at
\* which the host's local clock shows naive seconds t.
local_to_seconds(z, t) ==
    LET a   == local(z, t) - t
        u1  == t - a
        t1  == local(z, u1)
        u2f == u1 - max_fold_seconds
        bf  == local(z, u2f) - u2f
    IN  IF t1 = t /\ a = bf
        THEN u1
        ELSE LET b  == IF t1 = t THEN bf ELSE t1 - u1
                 u2 == t - b
                 t2 == local(z, u2)
             IN  IF t2 = t THEN u2
                 ELSE IF t1 = t THEN u1
                 ELSE Max(u1, u2)

\* datetime.timestamp() of a naive datetime: it is read as host local time.
\* The float result is kept as whole seconds and the microsecond fraction.
timestamp(z, dt) == [s |-> local_to_seconds(z, dt.s), us |-> dt.us]

\* int() of a non-negative float of seconds: truncation.
int(f) == f.s

\* datetime + timedelta(days = d) on the naive calendar.
timedelta_add(dt, d) == [s |-> dt.s + d * DAY, us |-> dt.us]

\* Proleptic Gregorian date <<y, m, d>> of a day number counted from 1970-01-01.
civil_from_days(z) ==
    LET zz  == z + 719468
        era == zz \div 146097
        doe == zz - era * 146097
        yoe == (doe - doe \div 1460 + doe \div 36524 - doe \div 146096) \div 365
        doy == doe - (365 * yoe + yoe \div 4 - yoe \div 100)
        mp  == (5 * doy + 2) \div 153
        d   == doy - (153 * mp + 2) \div 5 + 1
        m   == IF mp < 10 THEN mp + 3 ELSE mp - 9
        y   == yoe + era * 400 + (IF m <= 2 THEN 1 ELSE 0)
    IN  << y, m, d >>

\* expiration.strftime('%Y-%m-%d %H:%M:%S UTC'): the six printed fields of the
\* naive datetime; microseconds are not printed.
strftime(dt) ==
    LET s   == dt.s
        ymd == civil_from_days(s \div DAY)
        sod == s % DAY
    IN  << ymd[1], ymd[2], ymd[3], sod \div 3600, (sod % 3600) \div 60, sod % 60 >>

\* ------------------------------------------------------------ signing
\* Mutant of EncodeError: the key is never parsed, any text signs.
EncodeError_AnyKey(key, haveCrypto) ==
    IF ~haveCrypto THEN "NotImplementedError" ELSE ""

\* jwt.encode(payload, key, algorithm = "ES256", headers = headers): "" when it
\* returns, else the exception it raises.  The algorithm is looked up first
\* (ES256 needs the cryptography package), then the key is parsed.
EncodeError(key, haveCrypto) ==
    IF ~haveCrypto THEN "NotImplementedError"
    ELSE IF key # "valid" THEN "InvalidKeyError"
    ELSE ""

\* The compact token: header segment, payload segment, signature segment.
Sign(args) ==
    [ header    |-> args.headers,
      payload   |-> args.payload,
      signature |-> << args.algorithm, args.key >> ]

\* ------------------------------------------------------------ control flow
\* The print statements of the try block, in source order; the line after 54
\* is the end of the module.
TryPrints == {45, 46, 47, 48, 49, 50, 51, 52, 53, 54}
HandlerPrints == {57, 58, 59}
KeyNotFoundPrints == {21, 22}

\* What a print call interpolates into its line.
PrintArg(line) ==
    CASE line = 21 -> << "path", PRIVATE_KEY_PATH >>
      [] line = 49 -> << "token", token[1] >>
      [] line = 51 -> << "until", strftime(expiration[1]) >>
      [] line = 57 -> << "error", e[1] >>
      [] OTHER     -> << "text", line >>

\* The process ends with an uncaught exception: traceback, exit status 1.
Traceback(exc) ==
    /\ pc' = 0
    /\ exitStatus' = 1
    /\ uncaught' = exc

\* exit(n) and falling off the end of the module.
Exit(n) ==
    /\ pc' = 0
    /\ exitStatus' = n
    /\ UNCHANGED uncaught

Init ==
    /\ pc = 7
    /\ pyjwt \in BOOLEAN
    /\ cryptography \in BOOLEAN
    /\ keyFile \in KeyFiles
    /\ tz \in TZRules
    /\ trueNow = << >>
    /\ private_key = << >>
    /\ headers = << >>
    /\ now = << >>
    /\ expiration = << >>
    /\ payload = << >>
    /\ token = << >>
    /\ e = << >>
    /\ stdout = << >>
    /\ argsOut = << >>
    /\ encodeCalls = << >>
    /\ exitStatus = -1
    /\ uncaught = ""

\* line 7: import jwt (outside any try).
ImportJwt ==
    /\ pc = 7
    /\ IF pyjwt
       THEN pc' = 18 /\ UNCHANGED << exitStatus, uncaught >>
       ELSE Traceback("ModuleNotFoundError")
    /\ UNCHANGED << host, trueNow, bindings, e, stdout, argsOut, encodeCalls >>

\* lines 17-20: open and read the key file; only FileNotFoundError is caught.
ReadKey ==
    /\ pc = 18
    /\ CASE keyFile = "missing" ->
              /\ pc' = 21
              /\ UNCHANGED << private_key, exitStatus, uncaught >>
         [] keyFile = "denied" ->
              /\ Traceback("PermissionError")
              /\ UNCHANGED private_key
         [] keyFile = "directory" ->
              /\ Traceback("IsADirectoryError")
              /\ UNCHANGED private_key
         [] keyFile = "undecodable" ->
              /\ Traceback("UnicodeDecodeError")
              /\ UNCHANGED private_key
         [] OTHER ->
              /\ pc' = 26
              /\ private_key' = << keyFile >>
              /\ UNCHANGED << exitStatus, uncaught >>
    /\ UNCHANGED << host, trueNow, headers, now, expiration, payload, token,
                    e, stdout, argsOut, encodeCalls >>

\* lines 21-22: the diagnostic of the FileNotFoundError handler.  A console
\* write that raises here is not caught by anything.
PrintKeyNotFound ==
    /\ pc \in KeyNotFoundPrints
    /\ \E ok \in BOOLEAN :
         IF ok
         THEN /\ stdout' = Append(stdout, pc)
              /\ argsOut' = Append(argsOut, PrintArg(pc))
              /\ pc' = pc + 1
              /\ UNCHANGED << exitStatus, uncaught >>
         ELSE /\ Traceback("OSError")
              /\ UNCHANGED << stdout, argsOut >>
    /\ UNCHANGED << host, trueNow, bindings, e, encodeCalls >>

\* line 23: exit(1).
ExitKeyNotFound ==
    /\ pc = 23
    /\ Exit(1)
    /\ UNCHANGED << host, trueNow, bindings, e, stdout, argsOut, encodeCalls >>

\* Mutant of BuildHeaders: the header names another algorithm than the one
\* passed to jwt.encode.
BuildHeaders_WrongAlg ==
    /\ pc = 26
    /\ headers' = << [alg |-> "HS256", kid |-> KEY_ID] >>
    /\ pc' = 32
    /\ UNCHANGED << host, trueNow, private_key, now, expiration, payload, token,
                    e, stdout, argsOut, encodeCalls, exitStatus, uncaught >>

\* lines 26-29: headers.
BuildHeaders ==
    /\ pc = 26
    /\ headers' = << [alg |-> "ES256", kid |-> KEY_ID] >>
    /\ pc' = 32
    /\ UNCHANGED << host, trueNow, private_key, now, expiration, payload, token,
                    e, stdout, argsOut, encodeCalls, exitStatus, uncaught >>

\* line 32: now = datetime.datetime.utcnow(): the real UTC time as a naive
\* datetime.
CaptureNow ==
    /\ pc = 32
    /\ \E s \in ClockSeconds, us \in ClockMicros :
         /\ trueNow' = << [s |-> s, us |-> us] >>
         /\ now' = << [s |-> s, us |-> us] >>
    /\ pc' = 33
    /\ UNCHANGED << host, private_key, headers, expiration, payload, token,
                    e, stdout, argsOut, encodeCalls, exitStatus, uncaught >>

\* line 33: expiration = now + datetime.timedelta(days=180).
ComputeExpiration ==
    /\ pc = 33
    /\ expiration' = << timedelta_add(now[1], ValidDays) >>
    /\ pc' = 35
    /\ UNCHANGED << host, trueNow, private_key, headers, now, payload, token,
                    e, stdout, argsOut, encodeCalls, exitStatus, uncaught >>

\* lines 35-39: payload.
BuildPayload ==
    /\ pc = 35
    /\ payload' = << [ iss |-> TEAM_ID,
                       iat |-> int(timestamp(tz, now[1])),
                       exp |-> int(timestamp(tz, expiration[1])) ] >>
    /\ pc' = 43
    /\ UNCHANGED << host, trueNow, private_key, headers, now, expiration, token,
                    e, stdout, argsOut, encodeCalls, exitStatus, uncaught >>

\* line 43: token = jwt.encode(...), first statement of the try block.
Encode ==
    /\ pc = 43
    /\ LET args == [ payload   |-> payload[1],
                     key       |-> private_key[1],
                     algorithm |-> "ES256",
                     headers   |-> headers[1] ]
           exc  == EncodeError(args.key, cryptography)
       IN  /\ encodeCalls' = Append(encodeCalls, args)
           /\ IF exc = ""
              THEN /\ token' = << Sign(args) >>
                   /\ pc' = 45
                   /\ UNCHANGED e
              ELSE /\ e' = << exc >>
                   /\ pc' = 57
                   /\ UNCHANGED token
    /\ UNCHANGED << host, trueNow, private_key, headers, now, expiration, payload,
                    stdout, argsOut, exitStatus, uncaught >>

\* lines 45-54: the prints of the try block.  A console write that raises is
\* caught by "except Exception as e"; after line 54 the module ends.
PrintInTry ==
    /\ pc \in TryPrints
    /\ \E ok \in BOOLEAN :
         IF ok
         THEN /\ stdout' = Append(stdout, pc)
              /\ argsOut' = Append(argsOut, PrintArg(pc))
              /\ IF pc = 54 THEN Exit(0)
                 ELSE pc' = pc + 1 /\ UNCHANGED << exitStatus, uncaught >>
              /\ UNCHANGED e
         ELSE /\ e' = << "OSError" >>
              /\ pc' = 57
              /\ UNCHANGED << stdout, argsOut, exitStatus, uncaught >>
    /\ UNCHANGED << host, trueNow, bindings, encodeCalls >>

\* lines 57-59: the diagnostic and the hint of the "except Exception" handler.
\* A console write that raises here is not caught by anything.
PrintInHandler ==
    /\ pc \in HandlerPrints
    /\ \E ok \in BOOLEAN :
         IF ok
         THEN /\ stdout' = Append(stdout, pc)
              /\ argsOut' = Append(argsOut, PrintArg(pc))
              /\ pc' = pc + 1
              /\ UNCHANGED << exitStatus, uncaught >>
         ELSE /\ Traceback("OSError")
              /\ UNCHANGED << stdout, argsOut >>
    /\ UNCHANGED << host, trueNow, bindings, e, encodeCalls >>

\* Mutant of ExitSigningFailed: the handler goes back to the signing call.
ExitSigningFailed_Retry ==
    /\ pc = 60
    /\ pc' = 43
    /\ UNCHANGED << host, trueNow, bindings, e, stdout, argsOut, encodeCalls,
                    exitStatus, uncaught >>

\* line 60: exit(1).
ExitSigningFailed ==
    /\ pc = 60
    /\ Exit(1)
    /\ UNCHANGED << host, trueNow, bindings, e, stdout, argsOut, encodeCalls >>

Next ==
    \/ ImportJwt
    \/ ReadKey
    \/ PrintKeyNotFound
    \/ ExitKeyNotFound
    \/ BuildHeaders
    \/ CaptureNow
    \/ ComputeExpiration
    \/ BuildPayload
    \/ Encode
    \/ PrintInTry
    \/ PrintInHandler
    \/ ExitSigningFailed

Spec == Init /\ [][Next]_vars


\* ================================================================ claims
Ended == pc = 0

\* Positions of stdout written by the print call at a source line.
Written(line) == { i \in 1..Len(stdout) : stdout[i] = line }

TokenWritten == Written(49) # {}

\* The three terminal outcomes the specification names.
OutcomeKeyNotFound ==
    /\ exitStatus = 1
    /\ uncaught = ""
    /\ stdout = << 21, 22 >>
    /\ argsOut[1] = << "path", PRIVATE_KEY_PATH >>

OutcomeSigningFailed ==
    /\ exitStatus = 1
    /\ uncaught = ""
    /\ Len(stdout) >= 3
    /\ SubSeq(stdout, Len(stdout) - 2, Len(stdout)) = << 57, 58, 59 >>
    /\ argsOut[Len(stdout) - 2] = << "error", e[1] >>

OutcomeSuccess ==
    /\ exitStatus = 0
    /\ uncaught = ""
    /\ TokenWritten

\* Reading the six printed fields <<y, m, d, H, M, S>> as a UTC date and time:
\* the Unix instant they denote.
timegm(f) ==
    LET y   == IF f[2] <= 2 THEN f[1] - 1 ELSE f[1]
        era == y \div 400
        yoe == y - era * 400
        mp  == IF f[2] > 2 THEN f[2] - 3 ELSE f[2] + 9
        doy == (153 * mp + 2) \div 5 + f[3] - 1
        doe == yoe * 365 + yoe \div 4 - yoe \div 100 + doy
    IN  (era * 146097 + doe - 719468) * DAY + f[4] * 3600 + f[5] * 60 + f[6]

\* C1: in every run that builds a payload, exp - iat is exactly 15552000
\* seconds (180 days), whatever the captured time and the host's zone rule.
C1_ExpMinusIat ==
    payload # << >> => payload[1].exp - payload[1].iat = ValidDays * DAY

\* C2: no partial success: a run that has ended either wrote the token and
\* exited with status 0, or wrote no token and exited with a failure status.
C2_NoPartialSuccess ==
    Ended => \/ TokenWritten /\ exitStatus = 0
             \/ ~TokenWritten /\ exitStatus # 0

\* C3: when the key file is missing, the run prints the diagnostic naming the
\* expected path, exits with status 1, never calls jwt.encode and writes no
\* token.
C3_KeyNotFound ==
    (Ended /\ keyFile = "missing") =>
        /\ \E i \in Written(21) : argsOut[i] = << "path", PRIVATE_KEY_PATH >>
        /\ exitStatus = 1
        /\ encodeCalls = << >>
        /\ ~TokenWritten

\* C4: when the key file was read but is not valid key material, the success
\* banner and the token line are never written, and the run exits with
\* status 1.
C4_InvalidKey ==
    private_key = << "invalid" >> =>
        /\ token = << >>
        /\ Written(45) = {}
        /\ ~TokenWritten
        /\ Ended => exitStatus = 1

C4_Witness ==
    /\ Ended
    /\ private_key = << "invalid" >>
    /\ cryptography
    /\ Len(encodeCalls) = 1
    /\ e = << "InvalidKeyError" >>
    /\ exitStatus = 1

\* C5: every run ends in exactly one of KeyNotFound, SigningFailed and success.
C5_ThreeOutcomes ==
    Ended => \/ OutcomeKeyNotFound
             \/ OutcomeSigningFailed
             \/ OutcomeSuccess

\* C6: every failure during signing (malformed key, unsupported algorithm,
\* missing signing library) ends with the SigningFailed diagnostic carrying the
\* error message, then the hint, then exit status 1.
C6_SigningFailureReported ==
    ( /\ Ended
      /\ keyFile \in {"valid", "invalid"}
      /\ ~pyjwt \/ ~cryptography \/ keyFile = "invalid" )
    => OutcomeSigningFailed

\* C7: jwt.encode is called at most once and at most one token is written;
\* once a failure handler is entered nothing is retried: the run only moves
\* forward through that handler to termination.
InHandler == pc \in KeyNotFoundPrints \cup HandlerPrints \cup {23, 60}

C7_AtMostOnceNoRetry ==
    /\ [](Len(encodeCalls) <= 1 /\ Cardinality(Written(49)) <= 1)
    /\ [][ InHandler =>
             /\ pc' = 0 \/ (InHandler' /\ pc' = pc + 1)
             /\ encodeCalls' = encodeCalls
             /\ private_key' = private_key
             /\ token' = token
             /\ Written(49)' = Written(49) ]_vars

C7_Witness ==
    /\ Ended
    /\ exitStatus = 1
    /\ Len(encodeCalls) = 1
    /\ Cardinality(Written(49)) = 1
    /\ Written(59) # {}

\* C8: jwt.encode is handed exactly header {alg: "ES256", kid: KEY_ID}, a
\* payload of iss = TEAM_ID, iat and exp and nothing else, and algorithm
\* "ES256", the header's alg being the algorithm argument.
C8_EncodeInputs ==
    \A i \in 1..Len(encodeCalls) :
        LET c == encodeCalls[i]
        IN  /\ c.headers = [alg |-> "ES256", kid |-> KEY_ID]
            /\ c.algorithm = "ES256"
            /\ c.headers.alg = c.algorithm
            /\ DOMAIN c.payload = {"iss", "iat", "exp"}
            /\ c.payload.iss = TEAM_ID
            /\ c.payload = payload[1]
            /\ c.key = private_key[1]

C8_Witness ==
    /\ Ended
    /\ OutcomeSuccess
    /\ Len(encodeCalls) = 1
    /\ token = << Sign(encodeCalls[1]) >>

\* C9: iat is the true Unix time of the instant the clock was read, for every
\* host UTC offset.
C9_IatIsTrueTime ==
    payload # << >> => payload[1].iat = trueNow[1].s

\* C10: in a successful run the date and time printed on the "Valid until"
\* line, read as UTC, is the instant signed as exp.
C10_PrintedExpiryIsExp ==
    (Ended /\ exitStatus = 0) =>
        \A i \in Written(51) : timegm(argsOut[i][2]) = payload[1].exp

====
